---- MODULE Spec2Model ----
(***************************************************************************)
(* Model of python/micro/codeobject-interpretation.py: a micro benchmark   *)
(* that obtains one code object at module load (by compiling the source    *)
(* and disassembling it, or, under graalpython, by unmarshalling the blob  *)
(* of __graalpython__.compile_cpyc) and then executes it num times per     *)
(* call of measure / __benchmark__.                                        *)
(*                                                                         *)
(* The module body and the two functions are modelled statement by         *)
(* statement; pc names the line about to run.  An uncaught exception       *)
(* unwinds every frame in the step that raises it, because the file has    *)
(* no try statement.                                                       *)
(***************************************************************************)
EXTENDS Integers, Sequences, FiniteSets

\* ---------------------------------------------------------------- bounds
\* Calls the external benchmark runner makes after the module is loaded.
MaxCalls == 2
\* Explicit num arguments range over -MaxNeg .. MaxArg.
MaxArg == 3
MaxNeg == 1

NumArgs == (0 - MaxNeg)..MaxArg

\* ------------------------------------------------------- program constants
\* def __benchmark__(num=5)
DefaultNum == 5

\* sys.implementation.name of the interpreters the file may be run by.
GraalName == "graalpython"
ImplNames == {"cpython", GraalName, "pypy"}

\* The source text passed at line 54, and two other arguments of get_code:
\* text that does not parse, and text whose execution may raise.
SampleSource == "import sys; len(sys.__name__)"
InvalidSource == "def :"
FaultySource == "import sys; len(sys.stdin.readline()[0])"
Sources == {SampleSource, InvalidSource, FaultySource}
FileName == "bench.py"

VARIABLES
    implName,   \* sys.implementation.name (read at line 41)
    source,     \* the source argument of the get_code call at line 54
    pc,         \* the line about to run, "Ready" between calls, "Aborted"
    IS_GRAAL,   \* module global, "unbound" before line 41
    get_code,   \* module global: "unbound", "lambda" (line 45) or "def" (47)
    CODE,       \* module global: 0 while unbound, else a code object's id
    c,          \* get_code's local c (line 48), 0 while unbound
    blob,       \* the bytes compile_cpyc returned (line 45), <<>> before
    heap,       \* the code objects created so far, by id
    stdout,     \* what was written to standard output, in order
    error,      \* the uncaught exception that ended the module load
    stack,      \* the active frames of a call, outermost first
    bnum,       \* __benchmark__'s parameter num
    mnum,       \* measure's parameter num
    it,         \* the iterator of range(num) in measure's for statement
    execLog,    \* ids of the objects whose exec completed in this call
    raisedAt,   \* which exec of this call raised, 0 if none
    lastResult, \* how the latest call ended: "none", "ok", "RuntimeError"
    history,    \* one record per ended call
    acquired    \* how many times line 54 bound CODE

vars == <<implName, source, pc, IS_GRAAL, get_code, CODE, c, blob, heap,
          stdout, error, stack, bnum, mnum, it, execLog, raisedAt,
          lastResult, history, acquired>>

loadVars == <<IS_GRAAL, get_code, CODE, c, blob, heap, stdout, error, acquired>>
callVars == <<stack, bnum, mnum, it, execLog, raisedAt, lastResult, history>>
envVars == <<implName, source>>

\* ------------------------------------------------------------ pure parts

\* Mutant: any interpreter but the reference one counts as graalpython.
IsGraalNotCPython(name) == name # "cpython"

\* line 41: sys.implementation.name == "graalpython"
IsGraal(name) == name = GraalName

\* compile(s, n, "exec") raises SyntaxError on text that does not parse.
IsValidSyntax(s) == s # InvalidSource

\* compile(s, n, "exec"): the code object of s, labelled n.
CompileObject(n, s) == [filename |-> n, src |-> s, via |-> "compile"]

\* dis.dis(c): the listing of the object with id c.
Disassembly(id) == [listing |-> id]

\* __graalpython__.compile_cpyc(n, s): a marshalled code object, in the
\* format of the serializer that produced it.
BlobFormats == {"current", "mismatched"}
CompileCpyc(n, s, fmt) == <<[filename |-> n, src |-> s, fmt |-> fmt]>>

\* marshal.loads(b) accepts only the format of its own serializer.
MarshalAccepts(b) == b[1].fmt = "current"
MarshalLoads(b) == [filename |-> b[1].filename, src |-> b[1].src, via |-> "marshal"]

\* Mutant: range(abs(num)).
RangeLenAbs(num) == IF num > 0 THEN num ELSE 0 - num

\* len(range(num)): a range with a non-positive stop is empty.
RangeLen(num) == IF num > 0 THEN num ELSE 0

\* Mutant: range(1, num).
NewRangeIterFromOne(num) == [pos |-> 1, len |-> IF num > 0 THEN num ELSE 0]

\* iter(range(num)), created when the for statement starts.
NewRangeIter(num) == [pos |-> 0, len |-> RangeLen(num)]

\* How one exec of the object may end.  The sample source imports sys and
\* takes the length of a string; the faulty one raises IndexError once the
\* input is exhausted, which the code cannot tell beforehand.
ExecOutcomes(obj) ==
    IF obj.src = FaultySource THEN {"ok", "raise"} ELSE {"ok"}

\* Mutant: __benchmark__ calls measure(5) whatever its num.
DelegatedDefault(n) == DefaultNum

\* The value __benchmark__ passes to measure at line 68.
DelegatedNum(n) == n

\* ------------------------------------------------------------ module load

InitRest ==
    /\ implName \in ImplNames
    /\ pc = "L41"
    /\ IS_GRAAL = "unbound"
    /\ get_code = "unbound"
    /\ CODE = 0
    /\ c = 0
    /\ blob = <<>>
    /\ heap = <<>>
    /\ stdout = <<>>
    /\ error = "none"
    /\ stack = <<>>
    /\ bnum = 0
    /\ mnum = 0
    /\ it = [pos |-> 0, len |-> 0]
    /\ execLog = <<>>
    /\ raisedAt = 0
    /\ lastResult = "none"
    /\ history = <<>>
    /\ acquired = 0

\* The file as written: line 54 passes the sample source.
Init == source = SampleSource /\ InitRest

\* get_code applied to any of the sources.
InitSrc == source \in Sources /\ InitRest

\* Mutant: the exception is caught and recorded, and the load goes on.
AbortCaught(kind) ==
    /\ pc' = "L62"
    /\ error' = kind

\* An exception nothing catches ends the module load.
Abort(kind) ==
    /\ pc' = "Aborted"
    /\ error' = kind

\* line 41: IS_GRAAL = sys.implementation.name == "graalpython"
DetectRuntime ==
    /\ pc = "L41"
    /\ IS_GRAAL' = IsGraal(implName)
    /\ pc' = "L44"
    /\ UNCHANGED <<get_code, CODE, c, blob, heap, stdout, error, acquired>>
    /\ UNCHANGED <<callVars, envVars>>

\* lines 44-51: bind get_code to the lambda or to the def.
DefineGetCode ==
    /\ pc = "L44"
    /\ get_code' = IF IS_GRAAL = TRUE THEN "lambda" ELSE "def"
    /\ pc' = "L54"
    /\ UNCHANGED <<IS_GRAAL, CODE, c, blob, heap, stdout, error, acquired>>
    /\ UNCHANGED <<callVars, envVars>>

\* line 54: call get_code("bench.py", source).
CallGetCode ==
    /\ pc = "L54"
    /\ pc' = IF get_code = "lambda" THEN "L45" ELSE "L48"
    /\ UNCHANGED <<loadVars, callVars, envVars>>

\* Mutant: a failed compile is caught inside get_code, c stays None and
\* the function goes on to the disassembly.
GetCodeCompileLenient ==
    /\ pc = "L48"
    /\ IF IsValidSyntax(source)
       THEN /\ heap' = Append(heap, CompileObject(FileName, source))
            /\ c' = Len(heap) + 1
       ELSE UNCHANGED <<heap, c>>
    /\ pc' = "L50"
    /\ UNCHANGED <<IS_GRAAL, get_code, CODE, blob, stdout, error, acquired>>
    /\ UNCHANGED <<callVars, envVars>>

\* line 48: c = compile(s, n, "exec")
GetCodeCompile ==
    /\ pc = "L48"
    /\ IF IsValidSyntax(source)
       THEN /\ heap' = Append(heap, CompileObject(FileName, source))
            /\ c' = Len(heap) + 1
            /\ pc' = "L50"
            /\ UNCHANGED error
       ELSE /\ Abort("CompileError")
            /\ UNCHANGED <<heap, c>>
    /\ UNCHANGED <<IS_GRAAL, get_code, CODE, blob, stdout, acquired>>
    /\ UNCHANGED <<callVars, envVars>>

\* lines 49-50: import dis; dis.dis(c)
GetCodeDis ==
    /\ pc = "L50"
    /\ stdout' = Append(stdout, Disassembly(c))
    /\ pc' = "L51"
    /\ UNCHANGED <<IS_GRAAL, get_code, CODE, c, blob, heap, error, acquired>>
    /\ UNCHANGED <<callVars, envVars>>

\* line 51, then the assignment of line 54: return c; CODE = <result>
GetCodeReturn ==
    /\ pc = "L51"
    /\ CODE' = c
    /\ acquired' = acquired + 1
    /\ pc' = "L62"
    /\ UNCHANGED <<IS_GRAAL, get_code, c, blob, heap, stdout, error>>
    /\ UNCHANGED <<callVars, envVars>>

\* line 45, the argument of marshal.loads: __graalpython__.compile_cpyc(n, s)
GraalCompileCpyc ==
    /\ pc = "L45"
    /\ IF IsValidSyntax(source)
       THEN /\ \E fmt \in BlobFormats : blob' = CompileCpyc(FileName, source, fmt)
            /\ pc' = "L45loads"
            /\ UNCHANGED error
       ELSE /\ Abort("CompileError")
            /\ UNCHANGED blob
    /\ UNCHANGED <<IS_GRAAL, get_code, CODE, c, heap, stdout, acquired>>
    /\ UNCHANGED <<callVars, envVars>>

\* line 45, marshal.loads(<blob>), the lambda's result, then the assignment
\* of line 54.
GraalMarshalLoads ==
    /\ pc = "L45loads"
    /\ IF MarshalAccepts(blob)
       THEN /\ heap' = Append(heap, MarshalLoads(blob))
            /\ CODE' = Len(heap) + 1
            /\ acquired' = acquired + 1
            /\ pc' = "L62"
            /\ UNCHANGED error
       ELSE /\ Abort("DeserializationError")
            /\ UNCHANGED <<heap, CODE, acquired>>
    /\ UNCHANGED <<IS_GRAAL, get_code, c, blob, stdout>>
    /\ UNCHANGED <<callVars, envVars>>

\* lines 62-68: the two def statements; the module is loaded.
DefineEntryPoints ==
    /\ pc = "L62"
    /\ pc' = "Ready"
    /\ UNCHANGED <<loadVars, callVars, envVars>>

\* ------------------------------------------------------------------ calls

\* What a call did, kept when it ends: the entry point the runner called
\* and that entry point's num, measure's num, the executions completed.
CallRecord(result) ==
    [fn |-> stack[1], arg |-> IF stack[1] = "measure" THEN mnum ELSE bnum,
     num |-> mnum, count |-> Len(execLog),
     objs |-> execLog, result |-> result, raisedAt |-> raisedAt,
     code |-> CODE]

\* The runner calls measure(n).
CallMeasure ==
    /\ pc = "Ready"
    /\ Len(history) < MaxCalls
    /\ \E n \in NumArgs : mnum' = n
    /\ stack' = <<"measure">>
    /\ execLog' = <<>>
    /\ raisedAt' = 0
    /\ pc' = "L63"
    /\ UNCHANGED <<bnum, it, lastResult, history>>
    /\ UNCHANGED <<loadVars, envVars>>

\* The runner calls __benchmark__(n).
CallBenchmark ==
    /\ pc = "Ready"
    /\ Len(history) < MaxCalls
    /\ \E n \in NumArgs : bnum' = n
    /\ stack' = <<"__benchmark__(num)">>
    /\ execLog' = <<>>
    /\ raisedAt' = 0
    /\ pc' = "L68"
    /\ UNCHANGED <<mnum, it, lastResult, history>>
    /\ UNCHANGED <<loadVars, envVars>>

\* The runner calls __benchmark__(): num takes its default (line 67).
CallBenchmarkDefault ==
    /\ pc = "Ready"
    /\ Len(history) < MaxCalls
    /\ bnum' = DefaultNum
    /\ stack' = <<"__benchmark__()">>
    /\ execLog' = <<>>
    /\ raisedAt' = 0
    /\ pc' = "L68"
    /\ UNCHANGED <<mnum, it, lastResult, history>>
    /\ UNCHANGED <<loadVars, envVars>>

\* line 68: measure(num)
BenchmarkCallsMeasure ==
    /\ pc = "L68"
    /\ mnum' = DelegatedNum(bnum)
    /\ stack' = Append(stack, "measure")
    /\ pc' = "L63"
    /\ UNCHANGED <<bnum, it, execLog, raisedAt, lastResult, history>>
    /\ UNCHANGED <<loadVars, envVars>>

\* Mutant: the loop counter lives in a module global and is not reset.
MeasureRangeShared ==
    /\ pc = "L63"
    /\ it' = [pos |-> it.pos, len |-> RangeLen(mnum)]
    /\ pc' = "L63next"
    /\ UNCHANGED <<stack, bnum, mnum, execLog, raisedAt, lastResult, history>>
    /\ UNCHANGED <<loadVars, envVars>>

\* line 63, entered: range(num) and its iterator.
MeasureRange ==
    /\ pc = "L63"
    /\ it' = NewRangeIter(mnum)
    /\ pc' = "L63next"
    /\ UNCHANGED <<stack, bnum, mnum, execLog, raisedAt, lastResult, history>>
    /\ UNCHANGED <<loadVars, envVars>>

\* A call ends normally: the record of it, and the runner is in control.
EndCall ==
    /\ history' = Append(history, CallRecord("ok"))
    /\ lastResult' = "ok"
    /\ stack' = <<>>
    /\ pc' = "Ready"

\* Mutant: the exhausted loop never hands control back.
MeasureForHang ==
    /\ pc = "L63next"
    /\ it.pos < it.len
    /\ it' = [it EXCEPT !.pos = it.pos + 1]
    /\ pc' = "L64"
    /\ UNCHANGED <<stack, lastResult, history>>
    /\ UNCHANGED <<bnum, mnum, execLog, raisedAt>>
    /\ UNCHANGED <<loadVars, envVars>>

\* line 63, each round: the next i, or the loop and measure end.
MeasureFor ==
    /\ pc = "L63next"
    /\ IF it.pos < it.len
       THEN /\ it' = [it EXCEPT !.pos = it.pos + 1]
            /\ pc' = "L64"
            /\ UNCHANGED <<stack, lastResult, history>>
       ELSE /\ UNCHANGED it
            /\ IF Len(stack) > 1
               THEN /\ stack' = SubSeq(stack, 1, Len(stack) - 1)
                    /\ pc' = "L68ret"
                    /\ UNCHANGED <<lastResult, history>>
               ELSE EndCall
    /\ UNCHANGED <<bnum, mnum, execLog, raisedAt>>
    /\ UNCHANGED <<loadVars, envVars>>

\* Mutant: try: exec(CODE) / except: pass -- the loop goes on.
ExecCodeCatch ==
    /\ pc = "L64"
    /\ \E outcome \in ExecOutcomes(heap[CODE]) :
         IF outcome = "ok"
         THEN /\ execLog' = Append(execLog, CODE)
              /\ UNCHANGED raisedAt
         ELSE /\ raisedAt' = Len(execLog) + 1
              /\ UNCHANGED execLog
    /\ pc' = "L63next"
    /\ UNCHANGED <<stack, lastResult, history, bnum, mnum, it>>
    /\ UNCHANGED <<loadVars, envVars>>

\* Mutant: exec(get_code(...)) -- a new object is acquired in every round.
ExecCodeReacquire ==
    /\ pc = "L64"
    /\ heap' = Append(heap, heap[CODE])
    /\ CODE' = Len(heap) + 1
    /\ acquired' = acquired + 1
    /\ execLog' = Append(execLog, Len(heap) + 1)
    /\ pc' = "L63next"
    /\ UNCHANGED <<stack, raisedAt, lastResult, history, bnum, mnum, it>>
    /\ UNCHANGED <<IS_GRAAL, get_code, c, blob, stdout, error, envVars>>

\* line 64: exec(CODE).  An exception leaves measure, and __benchmark__ if
\* it is the caller: neither has a handler.
ExecCode ==
    /\ pc = "L64"
    /\ \E outcome \in ExecOutcomes(heap[CODE]) :
         IF outcome = "ok"
         THEN /\ execLog' = Append(execLog, CODE)
              /\ pc' = "L63next"
              /\ UNCHANGED <<stack, raisedAt, lastResult, history>>
         ELSE /\ raisedAt' = Len(execLog) + 1
              /\ history' = Append(history,
                    [CallRecord("RuntimeError") EXCEPT !.raisedAt = Len(execLog) + 1])
              /\ lastResult' = "RuntimeError"
              /\ stack' = <<>>
              /\ pc' = "Ready"
              /\ UNCHANGED execLog
    /\ UNCHANGED <<bnum, mnum, it>>
    /\ UNCHANGED <<loadVars, envVars>>

\* line 68, after measure returned: __benchmark__ returns None.
BenchmarkReturn ==
    /\ pc = "L68ret"
    /\ EndCall
    /\ UNCHANGED <<bnum, mnum, it, execLog, raisedAt>>
    /\ UNCHANGED <<loadVars, envVars>>

\* ---------------------------------------------------------- specification

Load ==
    \/ DetectRuntime
    \/ DefineGetCode
    \/ CallGetCode
    \/ GetCodeCompile
    \/ GetCodeDis
    \/ GetCodeReturn
    \/ GraalCompileCpyc
    \/ GraalMarshalLoads
    \/ DefineEntryPoints

Run ==
    \/ BenchmarkCallsMeasure
    \/ MeasureRange
    \/ MeasureFor
    \/ ExecCode
    \/ BenchmarkReturn

Call ==
    \/ CallMeasure
    \/ CallBenchmark
    \/ CallBenchmarkDefault

Next == Load \/ Run \/ Call

\* The file as written.
Spec == Init /\ [][Next]_vars

\* get_code applied to any source.
SpecSrc == InitSrc /\ [][Next]_vars

\* The interpreter runs the statement at pc; the runner need not call.
LiveSpec == Init /\ [][Next]_vars /\ WF_vars(Load \/ Run)

\* ------------------------------------------------------------ properties

Max0(n) == IF n > 0 THEN n ELSE 0
Calls == DOMAIN history
IsBenchmark(h) == h.fn # "measure"
InCall == stack # <<>>

\* C1: a call measure(num) with num >= 0 completes exactly num executions,
\* in sequence (the k-th after the k-1 before it, never more than num), and
\* returns without error; with num = 0 it makes none.
C1_MeasureExactlyNum ==
    /\ \A k \in Calls :
         (history[k].fn = "measure" /\ history[k].num >= 0) =>
            /\ history[k].result = "ok"
            /\ history[k].count = history[k].num
    /\ (InCall /\ pc \in {"L63next", "L64"} /\ mnum >= 0) =>
            /\ Len(execLog) <= mnum
            /\ Len(execLog) = it.pos - (IF pc = "L64" THEN 1 ELSE 0)

C1_Witness ==
    /\ Len(history) = 2
    /\ history[1] = [fn |-> "measure", arg |-> 0, num |-> 0, count |-> 0,
                     objs |-> <<>>, result |-> "ok", raisedAt |-> 0, code |-> CODE]
    /\ history[2].fn = "measure"
    /\ history[2].num = MaxArg
    /\ history[2].count = MaxArg
    /\ history[2].result = "ok"

\* C2 as stated: every call of __benchmark__ completes as many executions
\* as the value of its num parameter.
C2_BenchmarkCountIsNum ==
    \A k \in Calls :
        IsBenchmark(history[k]) => history[k].count = history[k].arg

\* C2 amended: every call of __benchmark__ passes its num to measure
\* unchanged and completes max(num, 0) executions; called with no argument
\* its num is 5 and it completes 5.
C2_BenchmarkDelegates ==
    \A k \in Calls :
        IsBenchmark(history[k]) =>
            /\ history[k].num = history[k].arg
            /\ history[k].count = Max0(history[k].arg)
            /\ history[k].result = "ok"
            /\ history[k].fn = "__benchmark__()" =>
                  (history[k].arg = 5 /\ history[k].count = 5)

C2_Witness ==
    /\ Len(history) = 2
    /\ history[1].fn = "__benchmark__()"
    /\ history[1].count = 5
    /\ history[2].fn = "__benchmark__(num)"
    /\ history[2].arg = 2
    /\ history[2].count = 2

\* C3: two calls that give measure the same num complete the same number
\* of executions, whatever was called in between and before.
C3_Repeatable ==
    \A j, k \in Calls :
        history[j].num = history[k].num =>
            /\ history[j].count = history[k].count
            /\ history[j].result = history[k].result

C3_Witness ==
    /\ Len(history) = 2
    /\ history[1].fn = "measure"
    /\ history[2].fn = "measure"
    /\ history[1].num = history[2].num
    /\ history[2].count = MaxArg

\* C4: on the compile path, source that does not parse ends the load with
\* CompileError at the compile step: no code object exists, CODE is never
\* bound, and nothing has been written to standard output.
C4_InvalidSourceNoDis ==
    (get_code = "def" /\ source = InvalidSource) =>
        /\ pc \in {"L54", "L48", "Aborted"}
        /\ pc = "Aborted" => error = "CompileError"
        /\ stdout = <<>>
        /\ heap = <<>>
        /\ c = 0
        /\ CODE = 0

C4_Witness ==
    /\ get_code = "def"
    /\ source = InvalidSource
    /\ pc = "Aborted"
    /\ error = "CompileError"
    /\ stdout = <<>>

\* C5: once the acquisition has failed (CompileError or
\* DeserializationError) the load is over: CODE was never bound, the module
\* is not Ready, no call was made, nothing was executed, and no step is
\* possible any more (no retry).
C5_FailureIsFatal ==
    /\ error # "none" =>
        /\ pc = "Aborted"
        /\ error \in {"CompileError", "DeserializationError"}
        /\ CODE = 0
        /\ acquired = 0
        /\ history = <<>>
        /\ execLog = <<>>
        /\ ~ ENABLED Next
    /\ (source = InvalidSource /\ pc \notin {"L41", "L44", "L54", "L48", "L45"})
          => error = "CompileError"
    /\ (blob # <<>> /\ ~ MarshalAccepts(blob) /\ pc # "L45loads")
          => error = "DeserializationError"

C5_Witness ==
    /\ error = "DeserializationError"
    /\ pc = "Aborted"
    /\ get_code = "lambda"
    /\ ~ ENABLED Next

\* C6: CODE is bound once, at load and before any execution; from then on
\* no step rebinds it, creates another code object or changes the one it
\* names, and every execution runs the object CODE names.
C6_CodeCreatedOnceAndKept ==
    [][ /\ CODE # 0 => (CODE' = CODE /\ heap' = heap /\ acquired' = acquired)
        /\ acquired' <= 1
        /\ execLog' # execLog /\ execLog' # <<>> =>
              /\ acquired = 1
              /\ execLog' = Append(execLog, CODE)
              /\ heap[CODE].src = source
              /\ heap[CODE].filename = FileName
        /\ pc' = "Ready" => (acquired' = 1 /\ CODE' # 0 /\ Len(heap') = 1) ]_vars

C6_Witness ==
    /\ Len(history) = 2
    /\ acquired = 1
    /\ Len(heap) = 1
    /\ history[1].count > 0
    /\ history[2].count > 0
    /\ \A k \in Calls : \A x \in DOMAIN history[k].objs :
          history[k].objs[x] = CODE /\ history[k].code = CODE

\* C7: the unmarshalling path is taken iff the runtime's name is
\* "graalpython"; standard output holds one listing, that of CODE, once the
\* compile path has acquired CODE, and nothing on the unmarshalling path,
\* after a failed acquisition, or more during any call.
C7_PathAndListing ==
    /\ get_code # "unbound" => (get_code = "lambda" <=> implName = "graalpython")
    /\ pc \in {"L45", "L45loads"} => implName = "graalpython"
    /\ pc \in {"L48", "L50", "L51"} => implName # "graalpython"
    /\ get_code = "lambda" => stdout = <<>>
    /\ CODE = 0 /\ pc # "L51" => stdout = <<>>
    /\ (CODE # 0 /\ get_code = "def") => stdout = <<Disassembly(CODE)>>

C7_Witness ==
    /\ implName = "pypy"
    /\ get_code = "def"
    /\ Len(history) = 2
    /\ history[2].count > 0
    /\ Len(stdout) = 1

\* C8: when the k-th execution of a call raises, the call ends with that
\* error at once: k-1 executions completed, k <= num, none follows, CODE
\* and its object are as before, and the next call starts at its first
\* round (it completes max(num, 0) executions unless it raises itself).
C8_RaisePropagates ==
    /\ raisedAt # 0 =>
        /\ ~ InCall
        /\ pc = "Ready"
        /\ lastResult = "RuntimeError"
        /\ history[Len(history)].result = "RuntimeError"
        /\ Len(execLog) = raisedAt - 1
    /\ \A k \in Calls :
        history[k].result = "RuntimeError" =>
            /\ history[k].raisedAt \in 1..history[k].num
            /\ history[k].count = history[k].raisedAt - 1
            /\ history[k].code = CODE
            /\ Len(heap) = 1
            /\ (k < Len(history) /\ history[k + 1].result = "ok") =>
                   history[k + 1].count = Max0(history[k + 1].num)
    /\ (pc = "L63next" /\ it.pos = 0) => execLog = <<>>

C8_Witness ==
    /\ Len(history) = 2
    /\ history[1].result = "RuntimeError"
    /\ history[1].num = 3
    /\ history[1].raisedAt = 2
    /\ history[1].count = 1
    /\ history[2].result = "ok"
    /\ history[2].count = 3

\* C9: a call in progress leads to the module being Ready again with the
\* call returned normally.
C9_CallReturns ==
    InCall ~> (pc = "Ready" /\ ~ InCall /\ lastResult = "ok")

C9_Witness ==
    /\ pc = "Ready"
    /\ Len(history) = 1
    /\ history[1].count = MaxArg
    /\ lastResult = "ok"
    /\ ENABLED Call

\* C10: a call with negative num, of measure or of __benchmark__,
\* completes no execution and returns without error; for every num the
\* executions of a call are max(num, 0).
C10_NegativeNumIsEmpty ==
    /\ \A k \in Calls :
         /\ history[k].arg < 0 => (history[k].count = 0 /\ history[k].objs = <<>>)
         /\ history[k].count = Max0(history[k].arg)
         /\ history[k].result = "ok"
    /\ (InCall /\ mnum < 0) => (execLog = <<>> /\ pc # "L64")

C10_Witness ==
    /\ Len(history) = 2
    /\ history[1].fn = "measure"
    /\ history[1].arg < 0
    /\ history[1].count = 0
    /\ history[2].fn = "__benchmark__(num)"
    /\ history[2].arg < 0
    /\ history[2].count = 0
    /\ lastResult = "ok"

====
